---- MODULE Spec2Model ----
(***************************************************************************)
(* A model of zpogrebin/mbta-map, package shape_parser:                    *)
(*   parse.py        MapMaker: load, enrich, project, bound, partition,    *)
(*                   render and save                                       *)
(*   line.py         Line and its per-mode subclasses, the renderer and    *)
(*                   Line.offset_curve                                     *)
(*   shape_tools.py  the free function offset_curve                        *)
(*                                                                         *)
(* Numbers.  The program computes with floats; the model computes with     *)
(* integers in fixed units so that every value the program produces on the *)
(* modelled inputs is represented exactly:                                 *)
(*   latitude, longitude   1/10000 degree                                  *)
(*   x, y, line_width      1/60 of a drawing unit (0.25 is 15, 0.5 is 30)  *)
(*   opacity               1/10 (0.5 is 5)                                 *)
(* Input polylines are rectilinear (every segment is horizontal, vertical  *)
(* or of zero length) with vertices on the whole-unit grid, so the unit    *)
(* normal of a segment has integer coordinates and the samples at          *)
(* t = k/steps are exact for the step counts used.                         *)
(***************************************************************************)
EXTENDS Integers, Sequences, FiniteSets, TLC

VARIABLES
    \* ---- the Map Assembler run (parse.py, line.py) ----
    shape_file,     \* the shape table on disk: [columns, rows]
    route_file,     \* the route table on disk: a sequence of rows
    runs,           \* how many times the program has been started
    pc,             \* "idle" | "loaded" | "failed" | "saved"
    force,          \* MapMaker.force of the current run
    shapes,         \* MapMaker.shapes: the Lines built by load_shapes
    map_bounds,     \* MapMaker.map_bounds
    df,             \* the DataFrame load_shapes holds once analyze has returned
    drawing,        \* the svgwrite.Drawing of make_svg, NoDrawing before it exists
    saved,          \* drawing.save() has written the output file in this run
    exc,            \* the exception that ended the current run, "none" if none
    offset_calls,   \* history: the (route, direction, distance) of every call
                    \* of offset_curve made by offset_curve_wrapper in this run
    \* ---- the offset engine applied on its own ----
    oc_points,      \* the input polyline
    oc_distance,    \* offset_distance
    oc_steps,       \* steps
    oc_fn,          \* which copy was applied: "none", "Line", "shape_tools"
    oc_result       \* [exc, path]: what the call raised or returned

vars == <<shape_file, route_file, runs, pc, force, df, shapes, map_bounds, drawing,
          saved, exc, offset_calls,
          oc_points, oc_distance, oc_steps, oc_fn, oc_result>>

pipeline_vars == <<shape_file, route_file, runs, pc, force, df, shapes, map_bounds,
                   drawing, saved, exc, offset_calls>>

offset_vars == <<oc_points, oc_distance, oc_steps, oc_fn, oc_result>>

---------------------------------------------------------------------------
(* Bounds of the model.                                                    *)

\* the program is started at most this many times on the same files
MaxRuns == 3

\* a polyline given to the offset engine on its own has at most this many segments
MaxMoves == 3

\* the offset engine on its own is applied with steps in 1..MaxSteps
MaxSteps == 3

---------------------------------------------------------------------------
(* Small helpers over sequences.                                           *)

Range(s) == {s[i] : i \in DOMAIN s}

RECURSIVE SeqsUpTo(_, _)
\* all sequences over S of length 0..n
SeqsUpTo(S, n) ==
    IF n = 0 THEN {<<>>}
    ELSE LET shorter == SeqsUpTo(S, n - 1)
         IN  shorter \cup {Append(s, x) : s \in {t \in shorter : Len(t) = n - 1}, x \in S}

RECURSIVE Flatten(_)
Flatten(ss) == IF ss = <<>> THEN <<>> ELSE Head(ss) \o Flatten(Tail(ss))

Reverse(s) == [i \in 1..Len(s) |-> s[Len(s) + 1 - i]]

Abs(n) == IF n < 0 THEN -n ELSE n

Sign(n) == IF n > 0 THEN 1 ELSE IF n < 0 THEN -1 ELSE 0

---------------------------------------------------------------------------
(* svgpathtools values as the program uses them.                           *)

\* svgpathtools.Line(start, end); a point is <<x, y>> for complex(x, y)
SvgLine(start, end) == [start |-> start, end |-> end]

\* process_line: the Path of the Lines joining consecutive points
\* (zip(points[:-1], points[1:])); fewer than two points give the empty Path
PathOfPoints(points) ==
    [k \in 1..(Len(points) - 1) |-> SvgLine(points[k], points[k + 1])]

\* seg.point(t) at t = k/steps: start + t * (end - start)
SegPoint(seg, k, steps) ==
    << seg.start[1] + ((seg.end[1] - seg.start[1]) * k) \div steps,
       seg.start[2] + ((seg.end[2] - seg.start[2]) * k) \div steps >>

\* seg.normal(t) = -1j * unit_tangent: the tangent (tx, ty) turned to (ty, -tx)
SegNormal(seg) ==
    LET tx == Sign(seg.end[1] - seg.start[1])
        ty == Sign(seg.end[2] - seg.start[2])
    IN  <<ty, -tx>>

\* Path.isclosed() of a non-empty continuous path: start == end
isclosed(path) == path[1].start = path[Len(path)].end

---------------------------------------------------------------------------
(* The offset engine: Line.offset_curve and shape_tools.offset_curve.      *)

Returned(path) == [exc |-> "none", path |-> path]
Raised(e) == [exc |-> e, path |-> <<>>]

\* the end points nl.end of the Lines appended to nls by the nested loop:
\* for every segment, for k in range(steps), nothing when seg.start == seg.end
nls(path, offset_distance, steps) ==
    Flatten([i \in 1..Len(path) |->
        IF path[i].start = path[i].end
        THEN <<>>
        ELSE [j \in 1..steps |->
                LET p == SegPoint(path[i], j - 1, steps)
                    n == SegNormal(path[i])
                IN  <<p[1] + offset_distance * n[1], p[2] + offset_distance * n[2]>>]])

\* [Line(nls[k].end, nls[k+1].end) for k in range(len(nls)-1)]
connect_the_dots(samples) ==
    [k \in 1..(Len(samples) - 1) |-> SvgLine(samples[k], samples[k + 1])]

\* shape_tools.offset_curve.  path.isclosed() asserts len(path) != 0, and
\* nls[-1] of an empty list raises IndexError.
offset_curve(path, offset_distance, steps) ==
    LET samples == nls(path, offset_distance, steps)
        dots    == connect_the_dots(samples)
    IN  IF Len(path) = 0 THEN Raised("AssertionError")
        ELSE IF isclosed(path)
             THEN IF Len(samples) = 0 THEN Raised("IndexError")
                  ELSE Returned(Append(dots, SvgLine(samples[Len(samples)], samples[1])))
             ELSE Returned(dots)

\* Line.offset_curve: the same text as shape_tools.offset_curve
Line_offset_curve(path, offset_distance, steps) ==
    LET samples == nls(path, offset_distance, steps)
        dots    == connect_the_dots(samples)
    IN  IF Len(path) = 0 THEN Raised("AssertionError")
        ELSE IF isclosed(path)
             THEN IF Len(samples) = 0 THEN Raised("IndexError")
                  ELSE Returned(Append(dots, SvgLine(samples[Len(samples)], samples[1])))
             ELSE Returned(dots)

\* the vertices of a path: the start of every segment and the end of the last
PathVertices(path) ==
    IF Len(path) = 0 THEN <<>>
    ELSE [k \in 1..(Len(path) + 1) |->
            IF k <= Len(path) THEN path[k].start ELSE path[Len(path)].end]


---------------------------------------------------------------------------
(* The offset engine applied on its own to every bounded input.            *)

\* one segment of an input polyline: none, or one whole unit along an axis
Moves == {<<0, 0>>, <<60, 0>>, <<-60, 0>>, <<0, 60>>, <<0, -60>>}

RECURSIVE Walk(_, _)
\* the polyline that starts at p and makes the moves in turn
Walk(p, moves) ==
    IF moves = <<>> THEN <<p>>
    ELSE <<p>> \o Walk(<<p[1] + Head(moves)[1], p[2] + Head(moves)[2]>>, Tail(moves))

\* the input polylines: the empty one, and every walk of 0..MaxMoves moves
OffsetInputs == {<<>>} \cup {Walk(<<120, 120>>, m) : m \in SeqsUpTo(Moves, MaxMoves)}

\* signed distances: both signs of two of the program's line widths
OffsetDistances == {-30, -15, 15, 30}

NoResult == [exc |-> "pending", path |-> <<>>]

\* no table: nothing read yet
NoTable == [columns |-> {}, rows |-> <<>>]

\* make_svg has not created the Drawing
NoDrawing == [created |-> FALSE]

PipelineIdle ==
    /\ shape_file = NoTable
    /\ route_file = <<>>
    /\ runs = 0
    /\ pc = "idle"
    /\ force = FALSE
    /\ df = NoTable
    /\ shapes = <<>>
    /\ map_bounds = <<>>
    /\ drawing = NoDrawing
    /\ saved = FALSE
    /\ exc = "none"
    /\ offset_calls = <<>>

InitOffset ==
    /\ PipelineIdle
    /\ oc_points \in OffsetInputs
    /\ oc_distance \in OffsetDistances
    /\ oc_steps \in 1..MaxSteps
    /\ oc_fn = "none"
    /\ oc_result = NoResult

\* Line.offset_curve(PathOfPoints(points), distance, steps)
CallLineOffsetCurve ==
    /\ oc_fn = "none"
    /\ oc_fn' = "Line"
    /\ oc_result' = Line_offset_curve(PathOfPoints(oc_points), oc_distance, oc_steps)
    /\ UNCHANGED <<oc_points, oc_distance, oc_steps>>
    /\ UNCHANGED pipeline_vars

\* shape_tools.offset_curve(PathOfPoints(points), distance, steps)
CallOffsetCurve ==
    /\ oc_fn = "none"
    /\ oc_fn' = "shape_tools"
    /\ oc_result' = offset_curve(PathOfPoints(oc_points), oc_distance, oc_steps)
    /\ UNCHANGED <<oc_points, oc_distance, oc_steps>>
    /\ UNCHANGED pipeline_vars

NextOffset == CallLineOffsetCurve \/ CallOffsetCurve

SpecOffset == InitOffset /\ [][NextOffset]_vars

\* the input of the call is closed: it has segments and P[0] == P[-1]
InputClosed == Len(oc_points) >= 2 /\ oc_points[1] = oc_points[Len(oc_points)]

\* the displaced samples the call computes for its input
InputSamples == nls(PathOfPoints(oc_points), oc_distance, oc_steps)

\* C7: a closed input polyline and steps >= 1 give a closed output: the call
\* returns a path whose end point equals its start point.
C7_ClosedInputGivesClosedOutput ==
    (oc_fn # "none" /\ InputClosed) =>
        /\ oc_result.exc = "none"
        /\ Len(oc_result.path) >= 1
        /\ oc_result.path[1].start = oc_result.path[Len(oc_result.path)].end

\* C8: for an input of at least 2 points that the call returns from, the
\* vertices of the returned path are exactly the displaced samples, in order,
\* none dropped (a closed output repeats the first sample at its end); so two
\* distinct points with steps = 1 give a non-empty result.
C8_VerticesAreTheSamples ==
    (oc_fn # "none" /\ Len(oc_points) >= 2 /\ oc_result.exc = "none") =>
        LET v == PathVertices(oc_result.path)
        IN  IF InputClosed THEN v = Append(InputSamples, InputSamples[1])
            ELSE v = InputSamples


---------------------------------------------------------------------------
(* Tables.  A table (a DataFrame, a CSV file) is [columns, rows]: the set  *)
(* of its column names and the sequence of its rows, each row a record     *)
(* with exactly those fields.  The route file is the sequence of its rows. *)

\* parse.py
_BOSTON_ORIGIN == <<423601, -710589>>
_LAT_LONG_SCALE == 1000

\* the columns of shapes.txt
ShapeColumns == {"shape_id", "shape_pt_sequence", "shape_pt_lat", "shape_pt_lon"}

\* the columns of shapes_by_route.csv: routes.columns, lower-cased
RouteFileColumns ==
    {"shape_id", "route_id", "direction_id", "route_name", "route_type",
     "route_color", "route_text_color"}

Column(rows, name) == [i \in DOMAIN rows |-> rows[i][name]]

RECURSIVE unique(_)
\* Series.unique(): the distinct values in order of first appearance
unique(s) ==
    IF s = <<>> THEN <<>>
    ELSE LET u == unique(SubSeq(s, 1, Len(s) - 1))
         IN  IF s[Len(s)] \in Range(u) THEN u ELSE Append(u, s[Len(s)])

\* df[df[name] == value]
RowsWhere(rows, name, value) ==
    LET Test(r) == r[name] = value IN SelectSeq(rows, Test)

\* MapMaker._check_df_for_columns: TRUE when every column of new is in df
\* and force is not set
_check_df_for_columns(frc, table, new) ==
    IF frc THEN FALSE ELSE new \subseteq table.columns

\* MapMaker._lat_long_to_xy, lat/long in 1/10000 degree, x/y in 1/60 unit
_lat_long_to_xy(lat, long) ==
    << ((long - _BOSTON_ORIGIN[2]) * _LAT_LONG_SCALE * 60) \div 10000,
       -(((lat - _BOSTON_ORIGIN[1]) * _LAT_LONG_SCALE * 60) \div 10000) >>

\* MapMaker.add_route_data.  `df = df[df.shape_id.isin(...)]` binds the name
\* df to a new DataFrame: the columns are added to that copy, which is what
\* to_csv writes, and the caller's DataFrame is left as it was.  The result
\* is [skipped, written]: whether the method returned early, and the table
\* it wrote to the shape file.
add_route_data(frc, table, routes) ==
    IF _check_df_for_columns(frc, table, RouteFileColumns)
    THEN [skipped |-> TRUE, written |-> NoTable]
    ELSE LET \* routes.loc[~routes.shape_id.duplicated()], indexed by shape_id
             first(id)  == routes[CHOOSE i \in DOMAIN routes :
                                    /\ routes[i].shape_id = id
                                    /\ \A j \in 1..(i - 1) : routes[j].shape_id # id]
             known      == Range(Column(routes, "shape_id"))
             InRoutes(r) == r.shape_id \in known
             kept       == SelectSeq(table.rows, InRoutes)
             \* df[column] = [routes[shape_id][column] for shape_id in df.shape_id]
             enrich(r)  == [c \in RouteFileColumns \ {"shape_id"}
                               |-> first(r.shape_id)[c]] @@ r
         IN  [skipped |-> FALSE,
              written |-> [columns |-> table.columns \cup (RouteFileColumns \ {"shape_id"}),
                           rows    |-> [i \in DOMAIN kept |-> enrich(kept[i])]]]

\* MapMaker.convert_lat_long_to_points: df["x"], df["y"] are assigned in
\* place, so the caller's DataFrame gets them, and that DataFrame is written.
\* The result is [skipped, df].
convert_lat_long_to_points(frc, table) ==
    IF _check_df_for_columns(frc, table, {"x", "y"})
    THEN [skipped |-> TRUE, df |-> table]
    ELSE LET xy(r) == _lat_long_to_xy(r.shape_pt_lat, r.shape_pt_lon)
             project(r) == [x |-> xy(r)[1], y |-> xy(r)[2]] @@ r
         IN  [skipped |-> FALSE,
              df |-> [columns |-> table.columns \cup {"x", "y"},
                      rows    |-> [i \in DOMAIN table.rows |-> project(table.rows[i])]]]

SeqMax(s) == CHOOSE m \in Range(s) : \A v \in Range(s) : v <= m

\* MapMaker.get_map_bounds
get_map_bounds(table) ==
    LET absolute_max_x == SeqMax([i \in DOMAIN table.rows |-> Abs(table.rows[i].x)])
        absolute_max_y == SeqMax([i \in DOMAIN table.rows |-> Abs(table.rows[i].y)])
    IN  <<-absolute_max_x, absolute_max_x, -absolute_max_y, absolute_max_y>>

\* MapMaker.analyze on the DataFrame read from `file`: add_route_data, then
\* convert_lat_long_to_points, each saving to the shape file, then
\* get_map_bounds.  The result is [df, file, map_bounds]: the caller's
\* DataFrame afterwards, the shape file afterwards, and the bounds.
analyze(frc, file, routes) ==
    LET after(a, c) ==
            [df   |-> c.df,
             file |-> IF ~c.skipped THEN c.df
                      ELSE IF ~a.skipped THEN a.written ELSE file,
             map_bounds |-> get_map_bounds(c.df)]
    IN  after(add_route_data(frc, file, routes),
              convert_lat_long_to_points(frc, file))


---------------------------------------------------------------------------
(* line.py: the Line classes and make_line.                                *)

\* the default value of the steps parameter of Line.offset_curve
DefaultSteps == 10

\* the class attributes: line_width in 1/60 unit, opacity in 1/10
LineClass(name, line_width, opacity, offset_curves) ==
    [name |-> name, line_width |-> line_width, opacity |-> opacity,
     offset_curves |-> offset_curves]

\* class Line itself: line_width 1, opacity 1, offset_curves False
BaseLine == LineClass("Line", 60, 10, FALSE)

_LINE_TYPES ==
    (0 :> LineClass("LightRail", 15, 5, TRUE)) @@
    (1 :> LineClass("Subway", 30, 7, TRUE)) @@
    (2 :> LineClass("Rail", 30, 5, FALSE)) @@
    (3 :> LineClass("Bus", 6, 2, FALSE)) @@
    (4 :> LineClass("Ferry", 15, 3, FALSE)) @@
    (5 :> LineClass("CableCar", 15, 5, FALSE)) @@
    (6 :> LineClass("Gondola", 15, 3, FALSE)) @@
    (7 :> LineClass("Funicular", 15, 3, FALSE)) @@
    (11 :> LineClass("TrolleyBus", 9, 2, FALSE)) @@
    (12 :> LineClass("Monorail", 24, 5, FALSE))

\* Line.__init__ of class cls: "#" is put before the two colours
Line_init(cls, shape_df) ==
    [cls              |-> cls.name,
     line_width       |-> cls.line_width,
     opacity          |-> cls.opacity,
     offset_curves    |-> cls.offset_curves,
     shape_df         |-> shape_df,
     route_id         |-> shape_df[1].route_id,
     route_name       |-> shape_df[1].route_name,
     route_type       |-> shape_df[1].route_type,
     route_color      |-> <<"#", shape_df[1].route_color>>,
     route_text_color |-> <<"#", shape_df[1].route_text_color>>,
     shape_ids        |-> unique(Column(shape_df, "shape_id"))]

NoLine == [cls |-> "none"]

\* a variant of make_line that falls back to class Line for an unknown code
make_line_with_default(shape_df) ==
    LET code == shape_df[1].route_type
    IN  [exc  |-> "none",
         line |-> Line_init(IF code \in DOMAIN _LINE_TYPES THEN _LINE_TYPES[code]
                            ELSE BaseLine, shape_df)]

\* make_line: _LINE_TYPES[shape_df["route_type"].iloc[0]](shape_df); a code
\* that is no key of the dict raises KeyError.  The result is [exc, line].
make_line(shape_df) ==
    LET code == shape_df[1].route_type
    IN  IF code \in DOMAIN _LINE_TYPES
        THEN [exc |-> "none", line |-> Line_init(_LINE_TYPES[code], shape_df)]
        ELSE [exc |-> "KeyError", line |-> NoLine]

RECURSIVE make_lines(_, _, _)
\* the loop of load_shapes over df.route_id.unique(), from made = [exc,
\* shapes]: shapes is what self.shapes holds when the loop ends or raises
make_lines(rows, route_ids, made) ==
    IF route_ids = <<>> \/ made.exc # "none" THEN made
    ELSE LET append(m) == IF m.exc # "none" THEN [made EXCEPT !.exc = m.exc]
                          ELSE [made EXCEPT !.shapes = Append(@, m.line)]
         IN  make_lines(rows, Tail(route_ids),
                        append(make_line(RowsWhere(rows, "route_id", Head(route_ids)))))

\* MapMaker.load_shapes: read the shape file, analyze, one Line per route_id.
\* df.route_id of a DataFrame without that column raises AttributeError.
\* The result is [exc, shapes, df, file, map_bounds].
load_shapes(frc, file, routes) ==
    LET result(an, made) ==
            [exc |-> made.exc, shapes |-> made.shapes, df |-> an.df,
             file |-> an.file, map_bounds |-> an.map_bounds]
        partition(an) ==
            result(an, IF "route_id" \in an.df.columns
                       THEN make_lines(an.df.rows,
                                       unique(Column(an.df.rows, "route_id")),
                                       [exc |-> "none", shapes |-> <<>>])
                       ELSE [exc |-> "AttributeError", shapes |-> <<>>])
    IN  partition(analyze(frc, file, routes))

---------------------------------------------------------------------------
(* line.py: rendering.  The Drawing is [created, size, elements,           *)
(* route_groups, sub_groups]: elements are the ids of the groups added to  *)
(* the Drawing itself, route_groups maps the id of a route's group to its  *)
(* children (the ids <<route_id, direction>> of the sub-groups added to    *)
(* it, one entry per add), and sub_groups maps a sub-group's id to the     *)
(* polylines added to it.  Rendering threads [drawing, calls, exc].        *)

NoPolyline == [points |-> <<>>]

\* the distance offset_curve_wrapper passes to offset_curve
OffsetDistance(line, direction) == -line.line_width

\* Line.offset_curve_wrapper: [exc, path, calls]
offset_curve_wrapper(line, path, direction) ==
    IF ~line.offset_curves
    THEN [exc |-> "none", path |-> path, calls |-> <<>>]
    ELSE LET d == OffsetDistance(line, direction)
             called(r) ==
                [exc |-> r.exc, path |-> r.path,
                 calls |-> <<[route_id |-> line.route_id, direction |-> direction,
                              line_width |-> line.line_width, distance |-> d]>>]
         IN  called(Line_offset_curve(path, d, DefaultSteps))

\* Line.process_line: the polyline of the start points of the path's
\* segments: [exc, polyline, calls]
process_line(line, points, direction) ==
    LET polyline(w) ==
            IF w.exc # "none"
            THEN [exc |-> w.exc, polyline |-> NoPolyline, calls |-> w.calls]
            ELSE [exc |-> "none",
                  polyline |-> [points       |-> [k \in DOMAIN w.path |-> w.path[k].start],
                                stroke       |-> line.route_color,
                                stroke_width |-> line.line_width,
                                fill         |-> "none",
                                opacity      |-> line.opacity],
                  calls |-> w.calls]
    IN  polyline(offset_curve_wrapper(line, PathOfPoints(points), direction))

\* the points of render_shapes: the x, y of the rows in row order, shifted
\* by map_bounds[0] and map_bounds[2]
ShiftedPoints(rows, bounds) ==
    [i \in DOMAIN rows |-> <<rows[i].x - bounds[1], rows[i].y - bounds[3]>>]

\* Line.render_shapes into the sub-group sub
render_shapes(line, direction, sub, bounds, this_shape, S) ==
    LET add(p) ==
            IF p.exc # "none"
            THEN [S EXCEPT !.exc = p.exc, !.calls = @ \o p.calls]
            ELSE [S EXCEPT !.calls = @ \o p.calls,
                           !.drawing.sub_groups[sub] = Append(@, p.polyline)]
    IN  add(process_line(line, ShiftedPoints(this_shape, bounds), direction))

RECURSIVE render_each_shape(_, _, _, _, _, _)
\* the loop of render_direction over shape.shape_id.unique()
render_each_shape(line, direction, sub, bounds, shape_ids, S) ==
    IF shape_ids = <<>> \/ S.exc # "none" THEN S
    ELSE render_each_shape(line, direction, sub, bounds, Tail(shape_ids),
            render_shapes(line, direction, sub, bounds,
                          RowsWhere(line.shape_df, "shape_id", Head(shape_ids)), S))

\* Line.render_direction: self.group(dwg, id) adds the new sub-group to the
\* route's group and returns it, and dwg.add(...) adds it again
render_direction(line, direction, bounds, S) ==
    LET sub   == <<line.route_id, direction>>
        shape == RowsWhere(line.shape_df, "direction_id", direction)
        S1    == [S EXCEPT !.drawing.route_groups[line.route_id] = @ \o <<sub, sub>>,
                           !.drawing.sub_groups = (sub :> <<>>) @@ @]
    IN  render_each_shape(line, direction, sub, bounds,
                          unique(Column(shape, "shape_id")), S1)

\* Line.render, and Rail.render, which returns dwg.polyline() and adds nothing
render(line, bounds, S) ==
    IF line.cls = "Rail" THEN S
    ELSE LET S1 == [S EXCEPT !.drawing.elements = Append(@, line.route_id),
                             !.drawing.route_groups = (line.route_id :> <<>>) @@ @]
             then(S2) == IF S2.exc # "none" THEN S2
                         ELSE render_direction(line, 1, bounds, S2)
         IN  then(render_direction(line, 0, bounds, S1))

RECURSIVE render_all(_, _, _)
\* the loop of make_svg over self.shapes
render_all(lines, bounds, S) ==
    IF lines = <<>> \/ S.exc # "none" THEN S
    ELSE render_all(Tail(lines), bounds, render(Head(lines), bounds, S))

\* MapMaker.make_svg up to drawing.save(): [drawing, calls, exc]
make_svg(lines, bounds) ==
    render_all(lines, bounds,
        [drawing |-> [created      |-> TRUE,
                      size         |-> <<bounds[2] - bounds[1], bounds[4] - bounds[3]>>,
                      elements     |-> <<>>,
                      route_groups |-> <<>>,
                      sub_groups   |-> <<>>],
         calls   |-> <<>>,
         exc     |-> "none"])

---------------------------------------------------------------------------
(* The inputs: the two files the program is started on.                    *)

ShapeIds == {"s1", "s2"}

\* route_id -> the route's name, mode code and colours; code 99 is no key
\* of _LINE_TYPES
RouteCatalog ==
    [Red  |-> [route_name |-> "Red Line", route_type |-> 1,
               route_color |-> "DA291C", route_text_color |-> "FFFFFF"],
     CR   |-> [route_name |-> "Fitchburg Line", route_type |-> 2,
               route_color |-> "80276C", route_text_color |-> "FFFFFF"],
     Bus1 |-> [route_name |-> "1", route_type |-> 3,
               route_color |-> "FFC72C", route_text_color |-> "000000"],
     Zed  |-> [route_name |-> "Zed", route_type |-> 99,
               route_color |-> "7C878E", route_text_color |-> "FFFFFF"]]

RouteIds == DOMAIN RouteCatalog

RouteRow(shape_id, route_id, direction_id) ==
    [shape_id |-> shape_id, route_id |-> route_id, direction_id |-> direction_id]
        @@ RouteCatalog[route_id]

RouteRows == {RouteRow(s, r, d) : s \in ShapeIds, r \in RouteIds, d \in {0, 1}}

\* the route files: two rows, which may name the same shape twice
RouteFiles == {<<a, b>> : a \in RouteRows, b \in RouteRows}

\* the geometry of a shape as whole-unit grid steps east and south of the
\* origin: one point, two equal points, a segment, a corner, there and
\* back again
ShapePolylines ==
    { << <<1, 1>> >>,
      << <<1, 1>>, <<1, 1>> >>,
      << <<1, 1>>, <<2, 1>> >>,
      << <<1, 1>>, <<2, 1>>, <<2, 2>> >>,
      << <<1, 1>>, <<2, 1>>, <<1, 1>> >> }

\* the rows of shapes.txt for one shape, in sequence order
ShapeRows(shape_id, polyline) ==
    [k \in DOMAIN polyline |->
        [shape_id          |-> shape_id,
         shape_pt_sequence |-> k,
         shape_pt_lat      |-> _BOSTON_ORIGIN[1] - 10 * polyline[k][2],
         shape_pt_lon      |-> _BOSTON_ORIGIN[2] + 10 * polyline[k][1]]]

\* the shape files: shapes.txt as downloaded, with the rows in sequence
\* order or in the opposite order
ShapeFiles ==
    {[columns |-> ShapeColumns,
      rows    |-> IF rev THEN Reverse(ShapeRows("s1", p1) \o ShapeRows("s2", p2))
                  ELSE ShapeRows("s1", p1) \o ShapeRows("s2", p2)] :
        p1 \in ShapePolylines, p2 \in ShapePolylines, rev \in BOOLEAN}

OffsetIdle ==
    /\ oc_points = <<>>
    /\ oc_distance = 0
    /\ oc_steps = DefaultSteps
    /\ oc_fn = "none"
    /\ oc_result = NoResult

Init ==
    /\ shape_file \in ShapeFiles
    /\ route_file \in RouteFiles
    /\ runs = 0
    /\ pc = "idle"
    /\ force = FALSE
    /\ df = NoTable
    /\ shapes = <<>>
    /\ map_bounds = <<>>
    /\ drawing = NoDrawing
    /\ saved = FALSE
    /\ exc = "none"
    /\ offset_calls = <<>>
    /\ OffsetIdle

\* MapMaker(shape_file, route_file, force_reanalysis): the program is
\* started, __init__ runs load_shapes
LoadShapes ==
    /\ pc \in {"idle", "failed", "saved"}
    /\ runs < MaxRuns
    /\ \E frc \in BOOLEAN :
        \E r \in {load_shapes(frc, shape_file, route_file)} :
            /\ force' = frc
            /\ shape_file' = r.file
            /\ df' = r.df
            /\ map_bounds' = r.map_bounds
            /\ shapes' = r.shapes
            /\ exc' = r.exc
            /\ pc' = IF r.exc = "none" THEN "loaded" ELSE "failed"
    /\ runs' = runs + 1
    /\ drawing' = NoDrawing
    /\ saved' = FALSE
    /\ offset_calls' = <<>>
    /\ UNCHANGED <<route_file, offset_vars>>

\* MapMaker.make_svg: create the Drawing, render every Line, save
MakeSvg ==
    /\ pc = "loaded"
    /\ \E r \in {make_svg(shapes, map_bounds)} :
           /\ drawing' = r.drawing
           /\ offset_calls' = r.calls
           /\ exc' = r.exc
           /\ saved' = (r.exc = "none")
           /\ pc' = IF r.exc = "none" THEN "saved" ELSE "failed"
    /\ UNCHANGED <<shape_file, route_file, runs, force, df, shapes, map_bounds,
                   offset_vars>>

Next == LoadShapes \/ MakeSvg

Spec == Init /\ [][Next]_vars


---------------------------------------------------------------------------
(* Properties of the Map Assembler run.                                    *)

\* the ids of the shapes render_direction renders for a direction, in order
DirectionShapeIds(line, direction) ==
    unique(Column(RowsWhere(line.shape_df, "direction_id", direction), "shape_id"))

\* the rows of one shape of a Line, in the row order of its DataFrame
ShapeRowsOf(line, shape_id) == RowsWhere(line.shape_df, "shape_id", shape_id)

\* rows ordered by shape_pt_sequence ascending
SortedBySequence(rows) ==
    [i \in DOMAIN rows |->
        CHOOSE r \in Range(rows) :
            Cardinality({q \in Range(rows) :
                            q.shape_pt_sequence < r.shape_pt_sequence}) = i - 1]

\* a shape whose polyline has fewer than 2 distinct points: empty, a single
\* point, or only zero-length segments
Degenerate(rows) == Cardinality({<<rows[i].x, rows[i].y>> : i \in DOMAIN rows}) < 2

\* the Lines that Line.render (not Rail.render) renders
RenderedLines == {k \in DOMAIN shapes : shapes[k].cls # "Rail"}

\* C1: for a route whose style enables offsetting, the distance passed to the
\* offset engine for direction 0 and the one passed for direction 1 have the
\* magnitude of the route's line width and opposite signs.
C1_OppositeOffsetsPerDirection ==
    \A i \in DOMAIN offset_calls : \A j \in DOMAIN offset_calls :
        ( /\ offset_calls[i].route_id = offset_calls[j].route_id
          /\ offset_calls[i].direction = 0
          /\ offset_calls[j].direction = 1 ) =>
            /\ Abs(offset_calls[i].distance) = offset_calls[i].line_width
            /\ Abs(offset_calls[j].distance) = offset_calls[j].line_width
            /\ offset_calls[i].distance = -offset_calls[j].distance

\* C2: without force, the table load_shapes partitions after analyze carries
\* route_id, route_name, route_type and route_color, so that the partition
\* by route_id meets no missing column.
C2_PartitionedTableIsEnriched ==
    (pc # "idle" /\ ~force) =>
        /\ {"route_id", "route_name", "route_type", "route_color"} \subseteq df.columns
        /\ exc # "AttributeError"

\* C3: after one run of analyze on a shape file that had neither the route
\* columns nor x/y, the shape file holds both the route columns and x/y.
C3_FileCompleteAfterOneRun ==
    runs = 1 => (RouteFileColumns \cup {"x", "y"}) \subseteq shape_file.columns

\* the table load_shapes partitions has a route whose mode code is no key of
\* the style table
UnknownModeLoaded ==
    /\ pc # "idle"
    /\ "route_type" \in df.columns
    /\ \E i \in DOMAIN df.rows : df.rows[i].route_type \notin DOMAIN _LINE_TYPES

\* C4: a route whose mode code is no key of the style table makes the run
\* fail with KeyError in load_shapes: no Drawing is created, nothing is
\* rendered and nothing is saved in that run.
C4_UnknownModeAbortsBeforeDrawing ==
    UnknownModeLoaded =>
        /\ pc = "failed"
        /\ exc = "KeyError"
        /\ drawing = NoDrawing
        /\ offset_calls = <<>>
        /\ ~saved

\* C4 happens: a run has loaded a table with mode code 99 next to a known
\* route and has ended with KeyError
C4_Witness ==
    /\ UnknownModeLoaded
    /\ exc = "KeyError"
    /\ \E i \in DOMAIN df.rows : df.rows[i].route_type \in DOMAIN _LINE_TYPES

\* C5: once make_svg has rendered all routes, the drawing holds for every
\* route, of every mode, exactly one group with the route's id, whose
\* children are exactly the two sub-groups, direction 0 and direction 1, each
\* once, and every sub-group holds zero or one polyline.
C5_OneGroupTwoSubGroupsPerRoute ==
    pc = "saved" =>
        \A k \in DOMAIN shapes :
            LET r == shapes[k].route_id
            IN  /\ Cardinality({e \in DOMAIN drawing.elements :
                                    drawing.elements[e] = r}) = 1
                /\ r \in DOMAIN drawing.route_groups
                /\ Len(drawing.route_groups[r]) = 2
                /\ Range(drawing.route_groups[r]) = {<<r, 0>>, <<r, 1>>}
                /\ \A d \in {0, 1} : Len(drawing.sub_groups[<<r, d>>]) <= 1

\* C6: a shape whose polyline has fewer than 2 points adds no polyline to its
\* direction's sub-group and raises nothing: rendering runs to the end, and
\* every sub-group holds one polyline for each shape that is not degenerate.
C6_DegenerateShapesAreSkipped ==
    drawing # NoDrawing =>
        /\ exc = "none"
        /\ \A k \in RenderedLines : \A d \in {0, 1} :
            Len(drawing.sub_groups[<<shapes[k].route_id, d>>]) =
                Cardinality({id \in Range(DirectionShapeIds(shapes[k], d)) :
                                ~Degenerate(ShapeRowsOf(shapes[k], id))})

\* C9: the polyline emitted for a shape is the one its points give in
\* ascending shape_pt_sequence order, whatever the row order of the table.
C9_PointsInSequenceOrder ==
    pc = "saved" =>
        \A k \in RenderedLines : \A d \in {0, 1} :
            LET ids == DirectionShapeIds(shapes[k], d)
            IN  \A n \in DOMAIN ids :
                    drawing.sub_groups[<<shapes[k].route_id, d>>][n] =
                        process_line(shapes[k],
                            ShiftedPoints(SortedBySequence(ShapeRowsOf(shapes[k], ids[n])),
                                          map_bounds), d).polyline

\* C10: the polyline emitted for a shape of at least two distinct points
\* holds every vertex of the path it renders, the final one included: without
\* offsetting its points are the shape's points shifted by the bounds'
\* minima, same number and order; with offsetting they are the vertices of
\* the path offset_curve returned.
C10_EveryVertexEmitted ==
    pc = "saved" =>
        \A k \in RenderedLines : \A d \in {0, 1} :
            LET ids == DirectionShapeIds(shapes[k], d)
            IN  \A n \in DOMAIN ids :
                    LET pts == ShiftedPoints(ShapeRowsOf(shapes[k], ids[n]), map_bounds)
                        got == drawing.sub_groups[<<shapes[k].route_id, d>>][n].points
                    IN  ~Degenerate(ShapeRowsOf(shapes[k], ids[n])) =>
                            IF shapes[k].offset_curves
                            THEN got = PathVertices(
                                    Line_offset_curve(PathOfPoints(pts),
                                        OffsetDistance(shapes[k], d), DefaultSteps).path)
                            ELSE got = pts

=============================================================================
